---------------------------- MODULE Spec2Model ----------------------------
(***************************************************************************)
(* A model of strawberryfields/tdm/tdmprogram.py: the TDMProgram object,   *)
(* its construction context, and the roll/unroll state machine.            *)
(*                                                                         *)
(* Conventions.                                                             *)
(*  - Python lists and tuples are TLA+ sequences; Python index k is the    *)
(*    TLA+ index k+1 (see At).                                              *)
(*  - A gate argument is a record [tag, v, name]: tag "int" or "float" for *)
(*    a concrete number whose value is v tenths (0.7 is v = 7, the integer *)
(*    1 is v = 10), tag "sym" for a symbolic placeholder called name.      *)
(*  - A command is a record [op, reg, p]: the operation's class name, the  *)
(*    indices (r.ind) of its target registers, and its argument list.      *)
(*  - An attribute that is None is the empty sequence, and a stored list   *)
(*    c is <<c>>.                                                           *)
(*  - Every operation of the modelled circuits carries at least one        *)
(*    argument, as in every circuit of the repository's tests and           *)
(*    documentation.                                                        *)
(***************************************************************************)
EXTENDS Integers, Sequences, FiniteSets, TLC

VARIABLES
    N,                \* self.N: number of concurrent modes per band
    circuit,          \* self.circuit: the active circuit
    alias,            \* which stored list self.circuit is the same object as
    rolled_circuit,   \* self.rolled_circuit (None or a list)
    unrolled_circuit, \* self.unrolled_circuit (None or a list)
    copies,           \* self.copies
    tdm_params,       \* self.tdm_params
    shift,            \* self.shift
    loop_vars,        \* self.loop_vars: the placeholders' names
    timebins,         \* self.timebins
    total_timebins,   \* self.total_timebins
    spatial_modes,    \* self.spatial_modes
    measured_modes,   \* self.measured_modes
    pc,               \* where the caller is: idle, bound, block, unroll
    q,                \* unroll's local q: the register tuple, by index
    i,                \* unroll's time-step counter
    j,                \* unroll's position in the rolled circuit
    err,              \* the exception the last call raised, or "none"
    computed,         \* how many times unroll() built a circuit
    device,           \* compile's argument in its last call (None before)
    all_samples,      \* the dict handed to reshape_samples, as the call left it
    new_samples,      \* what reshape_samples returned (None before)
    reshape_args      \* the arguments of the reshape_samples call (None before)

vars == <<N, circuit, alias, rolled_circuit, unrolled_circuit, copies,
          tdm_params, shift, loop_vars, timebins, total_timebins,
          spatial_modes, measured_modes, pc, q, i, j, err, computed, device,
          all_samples, new_samples, reshape_args>>

(***************************************************************************)
(* Bounds of the model.                                                     *)
(***************************************************************************)
MaxBandSize == 3
MaxCopies == 3
MaxShift == 3
MaxCommands == 3
MaxUnrolls == 1

(***************************************************************************)
(* Python list primitives.                                                  *)
(***************************************************************************)
None == <<>>
Some(x) == <<x>>
At(l, k) == l[k + 1]

Min(a, b) == IF a < b THEN a ELSE b
Max(a, b) == IF a > b THEN a ELSE b

\* Python's clamping of a slice bound n against a list of length len
SliceIndex(n, len) == IF n >= 0 THEN Min(n, len) ELSE Max(len + n, 0)
\* l[n:]
SliceFrom(l, n) == SubSeq(l, SliceIndex(n, Len(l)) + 1, Len(l))
\* l[:n]
SliceTo(l, n) == SubSeq(l, 1, SliceIndex(n, Len(l)))

RECURSIVE Sum(_)
Sum(s) == IF s = <<>> THEN 0 ELSE Head(s) + Sum(Tail(s))

Range(s) == {s[k] : k \in DOMAIN s}

IsPrefix(s, t) == Len(s) <= Len(t) /\ SubSeq(t, 1, Len(s)) = s

(***************************************************************************)
(* Arguments, placeholder names and commands.                               *)
(***************************************************************************)
IntArg(n) == [tag |-> "int", v |-> 10 * n, name |-> <<>>]
FloatArg(tenths) == [tag |-> "float", v |-> tenths, name |-> <<>>]
SymArg(nm) == [tag |-> "sym", v |-> 0, name |-> nm]

Digit == <<"0", "1", "2", "3", "4", "5", "6", "7", "8", "9">>
DigitValue(c) == CHOOSE d \in 0..9 : Digit[d + 1] = c

\* str(k) for k >= 0
RECURSIVE Decimal(_)
Decimal(k) == IF k < 10 THEN <<Digit[k + 1]>>
              ELSE Decimal(k \div 10) \o <<Digit[(k % 10) + 1]>>

\* int(s) for a string of digits
RECURSIVE ParseInt(_)
ParseInt(s) == IF Len(s) = 1 THEN DigitValue(s[1])
               ELSE 10 * ParseInt(SubSeq(s, 1, Len(s) - 1)) + DigitValue(s[Len(s)])

\* f"p{k}"
ParamName(k) == <<"p">> \o Decimal(k)

\* par_is_symbolic
ParIsSymbolic(a) == a.tag = "sym"

Cmd(op, reg, p) == [op |-> op, reg |-> reg, p |-> p]

MeasurementOps == {"MeasureHomodyne", "MeasureHeterodyne", "MeasureFock"}
IsMeasurement(op) == op \in MeasurementOps


(***************************************************************************)
(* The module-level functions of tdmprogram.py.                             *)
(***************************************************************************)
\* a faulty shift: the entries move up by one and the last one is repeated
shift_byNoWrap(l, n) == [k \in DOMAIN l |-> l[Min(k + 1, Len(l))]]

\* shift_by(l, n): l[n:] + l[:n]
shift_by(l, n) == SliceFrom(l, n) \o SliceTo(l, n)

\* get_modes(cmd, q): the entries of q a command's registers select
get_modes(cmd, qq) == [k \in 1..Len(cmd.reg) |-> At(qq, cmd.reg[k])]

\* the measurement count validate_measurements accumulates
RECURSIVE CountMeasured(_)
CountMeasured(circ) ==
    IF circ = <<>> THEN 0
    ELSE (IF IsMeasurement(Head(circ).op) THEN Len(Head(circ).reg) ELSE 0)
         + CountMeasured(Tail(circ))

NoMeasurement == "ValueError: Must be at least one measurement."
MeasurementMismatch ==
    "ValueError: Number of measurement operators must match number of spatial modes."
UnequalLength == "ValueError: Gate-parameter lists must be of equal length."
BadCopies == "TypeError: Number of copies must be a positive integer."
BlockRaised == "exception raised inside the with block"

\* a faulty validate_measurements: the band count is compared first
validate_measurementsMismatchFirst(circ, n) ==
    IF CountMeasured(circ) # Len(n) THEN MeasurementMismatch
    ELSE IF CountMeasured(circ) = 0 THEN NoMeasurement
    ELSE "none"

\* a faulty validate_measurements: it counts measurement commands, not their
\* target registers
validate_measurementsPerCommand(circ, n) ==
    IF Len(SelectSeq(circ, LAMBDA c : IsMeasurement(c.op))) = 0 THEN NoMeasurement
    ELSE IF Len(SelectSeq(circ, LAMBDA c : IsMeasurement(c.op))) # Len(n)
         THEN MeasurementMismatch
    ELSE "none"

\* validate_measurements(circuit, N): the error it raises, or "none"
validate_measurements(circ, n) ==
    IF CountMeasured(circ) = 0 THEN NoMeasurement
    ELSE IF CountMeasured(circ) # Len(n) THEN MeasurementMismatch
    ELSE "none"

\* a faulty input_check: copies is checked before the lengths
input_checkCopiesFirst(args, c) ==
    IF ~c.isint \/ c.v < 1 THEN BadCopies
    ELSE IF Cardinality({Len(args[k]) : k \in DOMAIN args}) # 1 THEN UnequalLength
    ELSE "none"

\* a faulty input_check: a copies value of 0 passes
input_checkZeroCopies(args, c) ==
    IF Cardinality({Len(args[k]) : k \in DOMAIN args}) # 1 THEN UnequalLength
    ELSE IF ~c.isint \/ c.v < 0 THEN BadCopies
    ELSE "none"

\* input_check(args, copies): the error it raises, or "none".  A copies
\* value is [isint, v]: whether it is a Python int, and its value (the
\* floor of a non-integer).
input_check(args, c) ==
    IF Cardinality({Len(args[k]) : k \in DOMAIN args}) # 1 THEN UnequalLength
    ELSE IF ~c.isint \/ c.v < 1 THEN BadCopies
    ELSE "none"

(***************************************************************************)
(* The pieces of TDMProgram.unroll and TDMProgram.apply_op.                 *)
(***************************************************************************)
\* self.concurr_modes
concurr_modes == Sum(N)

\* self.register, by index
Register(n) == [k \in 1..Sum(n) |-> k - 1]

\* a faulty slice: the stop index is the band size, without the offset
SliceStopUnshifted(n, b) == <<Sum(SubSeq(n, 1, b - 1)), n[b]>>

\* sm[b]: the slice of band b (b = 1 is the first band), as <<start, stop>>
Slice(n, b) == <<Sum(SubSeq(n, 1, b - 1)), Sum(SubSeq(n, 1, b - 1)) + n[b]>>

\* l[sl] = vals for a slice sl = <<start, stop>>
SliceAssign(l, sl, vals) ==
    SubSeq(l, 1, SliceIndex(sl[1], Len(l))) \o vals
        \o SubSeq(l, SliceIndex(sl[2], Len(l)) + 1, Len(l))

\* l[sl]
SliceGet(l, sl) ==
    SubSeq(l, SliceIndex(sl[1], Len(l)) + 1, SliceIndex(sl[2], Len(l)))

\* the default shift: each band's window shifted separately by one step
RECURSIVE DefaultShiftFrom(_, _, _)
DefaultShiftFrom(q_aux, n, b) ==
    IF b > Len(n) THEN q_aux
    ELSE DefaultShiftFrom(
             SliceAssign(q_aux, Slice(n, b), shift_by(SliceGet(q_aux, Slice(n, b)), 1)),
             n, b + 1)

\* a faulty default shift: the whole register rotates, not each band
DefaultShiftWhole(qq, n) == shift_by(qq, 1)

\* a faulty default shift: each band's window rotates to the right
RECURSIVE DefaultShiftRightFrom(_, _, _)
DefaultShiftRightFrom(q_aux, n, b) ==
    IF b > Len(n) THEN q_aux
    ELSE DefaultShiftRightFrom(
             SliceAssign(q_aux, Slice(n, b), shift_by(SliceGet(q_aux, Slice(n, b)), -1)),
             n, b + 1)

DefaultShiftRight(qq, n) == DefaultShiftRightFrom(qq, n, 1)

\* a faulty default shift: only the first band's window is shifted
DefaultShiftFirstBand(qq, n) == DefaultShiftFrom(qq, <<n[1]>>, 1)

DefaultShift(qq, n) == DefaultShiftFrom(qq, n, 1)

\* A shift policy is [kind, n]: "default", "int" with its amount n, or
\* "other" (any value that is neither), and "unset" before context().
DefaultPolicy == [kind |-> "default", n |-> 0]
IntPolicy(n) == [kind |-> "int", n |-> n]
OtherPolicy == [kind |-> "other", n |-> 0]
UnsetPolicy == [kind |-> "unset", n |-> 0]

\* a faulty shift: a policy that is neither "default" nor an integer shifts
\* the register by one
EndOfBinShiftElseOne(qq, n, sh) ==
    IF sh.kind = "default" THEN DefaultShift(qq, n)
    ELSE IF sh.kind = "int" THEN shift_by(qq, sh.n)
    ELSE shift_by(qq, 1)

\* the shift at the end of a time bin
EndOfBinShift(qq, n, sh) ==
    IF sh.kind = "default" THEN DefaultShift(qq, n)
    ELSE IF sh.kind = "int" THEN shift_by(qq, sh.n)
    ELSE qq

\* a faulty apply_op: the value of the next time bin
ResolveParamsNextBin(p, params, tb, t) ==
    IF ParIsSymbolic(p[1])
    THEN [p EXCEPT ![1] = At(At(params, ParseInt(Tail(p[1].name))), (t + 1) % tb)]
    ELSE p

\* the argument list apply_op builds for time step t
ResolveParams(p, params, tb, t) ==
    IF ParIsSymbolic(p[1])
    THEN [p EXCEPT ![1] = At(At(params, ParseInt(Tail(p[1].name))), t % tb)]
    ELSE p

\* whether the lookup self.tdm_params[arg_index][t % self.timebins] of
\* apply_op finds its entry
CanResolve(p, params, tb, t) ==
    ParIsSymbolic(p[1]) =>
        /\ ParseInt(Tail(p[1].name)) < Len(params)
        /\ t % tb < Len(At(params, ParseInt(Tail(p[1].name))))

\* the command apply_op appends for time step t
apply_op(cmd, qq, params, tb, t) ==
    Cmd(cmd.op, get_modes(cmd, qq), ResolveParams(cmd.p, params, tb, t))

\* a faulty record: every register of a measurement command is recorded
RECURSIVE MeasuredOfEveryRegister(_)
MeasuredOfEveryRegister(circ) ==
    IF circ = <<>> THEN <<>>
    ELSE (IF IsMeasurement(Head(circ).op) THEN Head(circ).reg ELSE <<>>)
         \o MeasuredOfEveryRegister(Tail(circ))

\* the registers unroll() records as measured
RECURSIVE MeasuredOf(_)
MeasuredOf(circ) ==
    IF circ = <<>> THEN <<>>
    ELSE (IF IsMeasurement(Head(circ).op) THEN <<Head(circ).reg[1]>> ELSE <<>>)
         \o MeasuredOf(Tail(circ))

(***************************************************************************)
(* The inputs the model draws from.                                         *)
(***************************************************************************)
\* band specs: one or two bands of 1..MaxBandSize modes
BandSpecs ==
    {<<a>> : a \in 1..MaxBandSize}
        \cup {<<a, b>> : a \in 1..MaxBandSize, b \in 1..MaxBandSize}

\* the positional value sequences handed to context()
DocArgs == <<<<IntArg(1), IntArg(2)>>, <<IntArg(3), IntArg(4)>>>>
OneArgs == <<<<FloatArg(5), IntArg(6), FloatArg(8)>>>>
RaggedArgs == <<<<IntArg(1), IntArg(2)>>, <<IntArg(3)>>>>
NoArgs == <<>>
FourArgs ==
    <<<<IntArg(1), IntArg(2), IntArg(3), IntArg(4)>>,
      <<IntArg(5), IntArg(6), IntArg(7), IntArg(8)>>>>
ArgInputs == {DocArgs, OneArgs, FourArgs, RaggedArgs, NoArgs}

\* the copies values handed to context(): integers, and a non-integer
\* (1/137, whose floor is 0)
CopiesInputs ==
    {[isint |-> TRUE, v |-> c] : c \in -1..MaxCopies}
        \cup {[isint |-> FALSE, v |-> 0]}

\* the shift values handed to context()
ShiftInputs ==
    {DefaultPolicy, OtherPolicy} \cup {IntPolicy(n) : n \in -MaxShift..MaxShift}

\* The bodies of the with block: the documented circuit, generalised to
\* the band spec (for N = [2] it is the class docstring's example), and a
\* circuit with a placeholder as a second argument.
MeasureEach(n, name, last) ==
    [b \in 1..Len(n) |->
        Cmd("MeasureHomodyne",
            <<IF last THEN Slice(n, b)[2] - 1 ELSE Slice(n, b)[1]>>,
            <<SymArg(name)>>)]

DocBody(n) ==
    <<Cmd("Sgate", <<Sum(n) - 1>>, <<FloatArg(7), IntArg(0)>>)>>
        \o (IF Sum(n) >= 2
            THEN <<Cmd("BSgate", <<0, Sum(n) - 1>>, <<SymArg(ParamName(0)), IntArg(0)>>)>>
            ELSE <<Cmd("Rgate", <<0>>, <<SymArg(ParamName(0))>>)>>)
        \o MeasureEach(n, ParamName(1), FALSE)

SecondArgBody(n) ==
    <<Cmd("Sgate", <<0>>, <<FloatArg(7), SymArg(ParamName(0))>>)>>
        \o MeasureEach(n, ParamName(0), TRUE)

\* one measurement command on the first and the last register of the pool
PairMeasureBody(n) ==
    <<Cmd("Rgate", <<0>>, <<FloatArg(5)>>),
      Cmd("MeasureHomodyne", <<0, Sum(n) - 1>>, <<SymArg(ParamName(0))>>)>>

Bodies(n) ==
    {DocBody(n), SecondArgBody(n)} \cup (IF Sum(n) >= 2 THEN {PairMeasureBody(n)} ELSE {})

(***************************************************************************)
(* The state after TDMProgram.__init__.                                     *)
(***************************************************************************)
Init ==
    /\ N \in BandSpecs
    /\ circuit = <<>>
    /\ alias = "none"
    /\ rolled_circuit = None
    /\ unrolled_circuit = None
    /\ copies = 0
    /\ tdm_params = None
    /\ shift = UnsetPolicy
    /\ loop_vars = <<>>
    /\ timebins = 0
    /\ total_timebins = 0
    /\ spatial_modes = 0
    /\ measured_modes = <<>>
    /\ pc = "idle"
    /\ q = <<>>
    /\ i = 0
    /\ j = 0
    /\ err = "none"
    /\ computed = 0
    /\ device = None
    /\ all_samples = None
    /\ new_samples = None
    /\ reshape_args = None

unrollLocals == <<q, i, j>>
samples == <<all_samples, new_samples, reshape_args>>
counts == <<timebins, total_timebins, spatial_modes>>
binding == <<copies, tdm_params, shift, loop_vars>>

(***************************************************************************)
(* Construction: context(), the with block, __exit__.                       *)
(***************************************************************************)
\* a faulty context(): a successful call drops the cached unrolled circuit
contextInvalidating(args, c, s) ==
    /\ pc = "idle"
    /\ IF input_check(args, c) # "none"
       THEN /\ err' = input_check(args, c)
            /\ UNCHANGED <<binding, pc, unrolled_circuit>>
       ELSE /\ copies' = c.v
            /\ tdm_params' = args
            /\ shift' = s
            /\ loop_vars' = [k \in 1..Len(args) |-> ParamName(k - 1)]
            /\ pc' = "bound"
            /\ err' = "none"
            /\ unrolled_circuit' = None
    /\ UNCHANGED <<N, device, samples, circuit, alias, rolled_circuit, counts,
                   measured_modes, unrollLocals, computed>>

\* a faulty context(): the arguments are stored before they are checked
contextBindsFirst(args, c, s) ==
    /\ pc = "idle"
    /\ copies' = c.v
    /\ tdm_params' = args
    /\ shift' = s
    /\ loop_vars' = [k \in 1..Len(args) |-> ParamName(k - 1)]
    /\ IF input_check(args, c) # "none"
       THEN /\ err' = input_check(args, c)
            /\ UNCHANGED pc
       ELSE /\ pc' = "bound"
            /\ err' = "none"
    /\ UNCHANGED <<N, device, samples, circuit, alias, rolled_circuit, unrolled_circuit, counts,
                   measured_modes, unrollLocals, computed>>

\* context(*args, copies, shift)
context(args, c, s) ==
    /\ pc = "idle"
    /\ IF input_check(args, c) # "none"
       THEN /\ err' = input_check(args, c)
            /\ UNCHANGED <<binding, pc>>
       ELSE /\ copies' = c.v
            /\ tdm_params' = args
            /\ shift' = s
            /\ loop_vars' = [k \in 1..Len(args) |-> ParamName(k - 1)]
            /\ pc' = "bound"
            /\ err' = "none"
    /\ UNCHANGED <<N, device, samples, circuit, alias, rolled_circuit, unrolled_circuit, counts,
                   measured_modes, unrollLocals, computed>>

\* context(), called on a program not yet bound
Context(args, c, s) == tdm_params = None /\ context(args, c, s)

\* __enter__: the with block is entered with (loop_vars, register)
Enter ==
    /\ pc = "bound"
    /\ pc' = "block"
    /\ UNCHANGED <<N, device, samples, circuit, alias, rolled_circuit, unrolled_circuit, binding,
                   counts, measured_modes, unrollLocals, err, computed>>

\* a statement  Op(args) | q[...]  of the with block: it can name only
\* registers of the pool and placeholders of loop_vars
CanAppend(cmd) ==
    /\ \A k \in DOMAIN cmd.reg : cmd.reg[k] \in 0..(concurr_modes - 1)
    /\ \A k \in DOMAIN cmd.p :
           ParIsSymbolic(cmd.p[k]) => cmd.p[k].name \in Range(loop_vars)

\* the next statement of one of the with-block bodies in the set bodies
AppendFrom(bodies, cmd) ==
    /\ pc = "block"
    /\ CanAppend(cmd)
    /\ \E b \in bodies : IsPrefix(Append(circuit, cmd), b)
    /\ circuit' = Append(circuit, cmd)
    /\ rolled_circuit' = IF alias = "rolled" THEN Some(circuit') ELSE rolled_circuit
    /\ unrolled_circuit' =
           IF alias = "unrolled" THEN Some(circuit') ELSE unrolled_circuit
    /\ UNCHANGED <<N, device, samples, alias, binding, counts, measured_modes, pc, unrollLocals,
                   err, computed>>

AppendCmd(cmd) == AppendFrom(Bodies(N), cmd)

\* a faulty __exit__: the time-bin count is the number of sequences
ExitCountsSequences ==
    /\ pc = "block"
    /\ pc' = "idle"
    /\ err' = validate_measurements(circuit, N)
    /\ IF validate_measurements(circuit, N) # "none"
       THEN UNCHANGED <<counts, rolled_circuit, alias>>
       ELSE /\ spatial_modes' = CountMeasured(circuit)
            /\ timebins' = Len(tdm_params)
            /\ total_timebins' = timebins' * copies
            /\ rolled_circuit' = Some(circuit)
            /\ alias' = IF alias = "rolled" THEN "none" ELSE alias
    /\ UNCHANGED <<N, device, samples, circuit, unrolled_circuit, binding, measured_modes,
                   unrollLocals, computed>>

\* the parameters property: dict(zip(names of loop_vars, tdm_params))
parameters ==
    [nm \in {loop_vars[k] : k \in 1..Min(Len(loop_vars), Len(tdm_params))} |->
        tdm_params[CHOOSE k \in 1..Min(Len(loop_vars), Len(tdm_params)) :
                       /\ loop_vars[k] = nm
                       /\ \A m \in 1..Min(Len(loop_vars), Len(tdm_params)) :
                              loop_vars[m] = nm => m <= k]]

\* __exit__ with ex_type None
Exit ==
    /\ pc = "block"
    /\ pc' = "idle"
    /\ err' = validate_measurements(circuit, N)
    /\ IF validate_measurements(circuit, N) # "none"
       THEN UNCHANGED <<counts, rolled_circuit, alias>>
       ELSE /\ spatial_modes' = CountMeasured(circuit)
            /\ timebins' = Len(At(tdm_params, 0))
            /\ total_timebins' = timebins' * copies
            /\ rolled_circuit' = Some(circuit)
            /\ alias' = IF alias = "rolled" THEN "none" ELSE alias
    /\ UNCHANGED <<N, device, samples, circuit, unrolled_circuit, binding, measured_modes,
                   unrollLocals, computed>>

\* __exit__ with an exception raised by the block
ExitRaised ==
    /\ pc = "block"
    /\ pc' = "idle"
    /\ err' = BlockRaised
    /\ UNCHANGED <<N, device, samples, circuit, alias, rolled_circuit, unrolled_circuit, binding,
                   counts, measured_modes, unrollLocals, computed>>

(***************************************************************************)
(* roll() and unroll(), called once a rolled circuit is stored.  unroll()   *)
(* runs to completion before any other call: UnrollBegin, then per time     *)
(* step one UnrollApplyOp per rolled command and one UnrollShift, then      *)
(* UnrollEnd.                                                                *)
(***************************************************************************)
\* a faulty roll(): the active circuit is left as it is
RollKeepsActive ==
    /\ pc = "idle"
    /\ rolled_circuit # None
    /\ alias' = "rolled"
    /\ err' = "none"
    /\ UNCHANGED <<N, device, samples, circuit, rolled_circuit, unrolled_circuit, binding, counts,
                   measured_modes, pc, unrollLocals, computed>>

Roll ==
    /\ pc = "idle"
    /\ rolled_circuit # None
    /\ circuit' = rolled_circuit[1]
    /\ alias' = "rolled"
    /\ err' = "none"
    /\ UNCHANGED <<N, device, samples, rolled_circuit, unrolled_circuit, binding, counts,
                   measured_modes, pc, unrollLocals, computed>>

\* unroll() with a cached unrolled circuit
UnrollCached ==
    /\ pc = "idle"
    /\ rolled_circuit # None
    /\ unrolled_circuit # None
    /\ circuit' = unrolled_circuit[1]
    /\ alias' = "unrolled"
    /\ err' = "none"
    /\ UNCHANGED <<N, device, samples, rolled_circuit, unrolled_circuit, binding, counts,
                   measured_modes, pc, unrollLocals, computed>>

\* a faulty unroll(): the cache is not consulted
UnrollBeginUncached ==
    /\ pc = "idle"
    /\ rolled_circuit # None
    /\ circuit' = <<>>
    /\ alias' = "none"
    /\ q' = Register(N)
    /\ measured_modes' = measured_modes \o MeasuredOf(rolled_circuit[1])
    /\ i' = 0
    /\ j' = 0
    /\ pc' = "unroll"
    /\ err' = "none"
    /\ computed' = computed + 1
    /\ UNCHANGED <<N, device, samples, rolled_circuit, unrolled_circuit, binding, counts>>

\* unroll() without one: up to the loop over the time bins
UnrollBegin ==
    /\ pc = "idle"
    /\ rolled_circuit # None
    /\ unrolled_circuit = None
    /\ circuit' = <<>>
    /\ alias' = "none"
    /\ q' = Register(N)
    /\ measured_modes' = measured_modes \o MeasuredOf(rolled_circuit[1])
    /\ i' = 0
    /\ j' = 0
    /\ pc' = "unroll"
    /\ err' = "none"
    /\ computed' = computed + 1
    /\ UNCHANGED <<N, device, samples, rolled_circuit, unrolled_circuit, binding, counts>>

\* a faulty inner loop: the shift is done after every command
UnrollApplyOpShifting ==
    /\ pc = "unroll"
    /\ i < total_timebins
    /\ j < Len(rolled_circuit[1])
    /\ CanResolve(At(rolled_circuit[1], j).p, tdm_params, timebins, i)
    /\ circuit' = Append(circuit, apply_op(At(rolled_circuit[1], j), q, tdm_params, timebins, i))
    /\ j' = j + 1
    /\ q' = EndOfBinShift(q, N, shift)
    /\ UNCHANGED <<N, device, samples, alias, rolled_circuit, unrolled_circuit, binding, counts,
                   measured_modes, pc, i, err, computed>>

\* self.apply_op(cmd, q, i) for the next command of the rolled circuit
UnrollApplyOp ==
    /\ pc = "unroll"
    /\ i < total_timebins
    /\ j < Len(rolled_circuit[1])
    /\ CanResolve(At(rolled_circuit[1], j).p, tdm_params, timebins, i)
    /\ circuit' = Append(circuit, apply_op(At(rolled_circuit[1], j), q, tdm_params, timebins, i))
    /\ j' = j + 1
    /\ UNCHANGED <<N, device, samples, alias, rolled_circuit, unrolled_circuit, binding, counts,
                   measured_modes, pc, q, i, err, computed>>

\* the shift at the end of time bin i
UnrollShift ==
    /\ pc = "unroll"
    /\ i < total_timebins
    /\ j = Len(rolled_circuit[1])
    /\ q' = EndOfBinShift(q, N, shift)
    /\ i' = i + 1
    /\ j' = 0
    /\ UNCHANGED <<N, device, samples, circuit, alias, rolled_circuit, unrolled_circuit, binding,
                   counts, measured_modes, pc, err, computed>>

\* self.unrolled_circuit = self.circuit.copy()
UnrollEnd ==
    /\ pc = "unroll"
    /\ i = total_timebins
    /\ unrolled_circuit' = Some(circuit)
    /\ pc' = "idle"
    /\ UNCHANGED <<N, device, samples, circuit, alias, rolled_circuit, binding, counts,
                   measured_modes, unrollLocals, err, computed>>

\* The loops of unroll() as a function: the commands of time steps
\* t .. total_timebins-1 of a rolled circuit, from the register tuple qq and
\* under the shift policy sh.
StepCommands(circ, qq, t) ==
    [k \in 1..Len(circ) |-> apply_op(circ[k], qq, tdm_params, timebins, t)]

RECURSIVE UnrollFrom(_, _, _, _)
UnrollFrom(circ, qq, t, sh) ==
    IF t >= total_timebins THEN <<>>
    ELSE StepCommands(circ, qq, t) \o UnrollFrom(circ, EndOfBinShift(qq, N, sh), t + 1, sh)

Next ==
    \/ \E args \in ArgInputs, c \in CopiesInputs, s \in ShiftInputs : Context(args, c, s)
    \/ Enter
    \/ \E b \in Bodies(N) : \E k \in DOMAIN b : AppendCmd(b[k])
    \/ Exit
    \/ ExitRaised
    \/ Roll
    \/ UnrollCached
    \/ UnrollBegin
    \/ UnrollApplyOp
    \/ UnrollShift
    \/ UnrollEnd

Spec == Init /\ [][Next]_vars

(***************************************************************************)
(* compile(device).  A device is [target, layout, gate_parameters]: the     *)
(* layout is the parsed operation list, each operation [op, modes, args]    *)
(* with args the names of its declared arguments, and gate_parameters maps  *)
(* an argument name to its range, a set of closed intervals [lo, hi] in     *)
(* tenths (a single allowed value is the interval lo = hi).                 *)
(***************************************************************************)
LayoutOp(op, modes, args) == [op |-> op, modes |-> modes, args |-> args]

Interval(lo, hi) == [lo |-> lo, hi |-> hi]

\* x in param_range
InRange(x, param_range) == \E r \in param_range : r.lo <= x.v /\ x.v <= r.hi

\* the device of the tests: Sgate(p0) | 1, BSgate(p1) | (1, 0), Rgate(p2) | 1,
\* MeasureHomodyne(p3) | 0, with p0 = 0.5643, p1 and p3 in [0, 2 pi], p2 in
\* [0, pi]
TestRanges ==
    [nm \in {"p0", "p1", "p2", "p3"} |->
        CASE nm = "p0" -> {Interval(6, 6)}
          [] nm = "p1" -> {Interval(0, 0), Interval(0, 62)}
          [] nm = "p2" -> {Interval(0, 0), Interval(0, 31), Interval(31, 31)}
          [] nm = "p3" -> {Interval(0, 0), Interval(0, 62)}]

\* device.modes
Modes(concurrent, spatial, max) ==
    [concurrent |-> concurrent, spatial |-> spatial, temporal |-> [max |-> max]]

TestDevice ==
    [target |-> "tdm",
     modes |-> Modes(2, 1, 100),
     layout |-> <<LayoutOp("Sgate", <<1>>, <<"p0">>),
                  LayoutOp("BSgate", <<1, 0>>, <<"p1">>),
                  LayoutOp("Rgate", <<1>>, <<"p2">>),
                  LayoutOp("MeasureHomodyne", <<0>>, <<"p3">>)>>,
     gate_parameters |-> TestRanges]

\* a device whose layout omits the Rgate
OmitDevice ==
    [target |-> "tdm",
     modes |-> Modes(2, 1, 100),
     layout |-> <<LayoutOp("Sgate", <<1>>, <<"p0">>),
                  LayoutOp("BSgate", <<1, 0>>, <<"p1">>),
                  LayoutOp("MeasureHomodyne", <<0>>, <<"p3">>)>>,
     gate_parameters |-> TestRanges]

\* the test device with room for one temporal mode only
ShortDevice == [TestDevice EXCEPT !.modes = Modes(2, 1, 1)]

\* the test device with room for three concurrent and two spatial modes
WideDevice == [TestDevice EXCEPT !.modes = Modes(3, 2, 100)]

Devices == {TestDevice, OmitDevice, ShortDevice}

TopologyError ==
    "CircuitError: Program cannot be used with the device due to incompatible topology."
ModeOrderingError ==
    "CircuitError: Program cannot be used with the device due to incompatible mode ordering."
ParameterError ==
    "CircuitError: Program cannot be used with the device due to incompatible parameter."
AssertFailed == "AssertionError"
\* the messages carry the program's count and the device's target and limit
TemporalError ==
    "CircuitError: This program contains <timebins> temporal modes, but the device only supports up to <max> modes."
ConcurrentError ==
    "CircuitError: This program contains <concurr_modes> concurrent modes, but the device only supports <concurrent> modes."
SpatialError ==
    "CircuitError: This program contains <spatial_modes> spatial modes, but the device only supports <spatial> modes."
\* the third message of assert_number_of_modes reads device.timebins, which
\* a device specification does not have
MessageFailed == "AttributeError: device.timebins"
IndexFailed == "IndexError"

program_gates(circ) == [k \in DOMAIN circ |-> circ[k].op]
device_gates(d) == [k \in DOMAIN d.layout |-> d.layout[k].op]
program_modes(circ) == [k \in DOMAIN circ |-> circ[k].reg]
device_modes(d) == [k \in DOMAIN d.layout |-> d.layout[k].modes]

\* p == 0 for an argument p: a placeholder is not equal to 0
IsZero(a) == a.tag # "sym" /\ a.v = 0

\* the assert loop over the arguments 1 .. len - 1 of a command with more
\* arguments than the layout declares; python -O strips the assert
ExtraArgsCheck(cmd, operation, optimized) ==
    IF /\ Len(operation.args) < Len(cmd.p)
       /\ ~optimized
       /\ \E jj \in 1..(Len(cmd.p) - 1) : ~IsZero(At(cmd.p, jj))
    THEN AssertFailed
    ELSE "none"

\* the loop over the declared arguments k, k + 1, .. of one operation, with
\* counter placeholders met so far in this operation
RECURSIVE ArgsCheck(_, _, _, _, _, _)
ArgsCheck(cmd, operation, params, d, k, counter) ==
    IF k >= Len(operation.args) THEN "none"
    ELSE IF k >= Len(cmd.p) THEN IndexFailed
    ELSE IF At(cmd.p, k).tag = "float"
         THEN IF ~InRange(At(cmd.p, k), d.gate_parameters[At(operation.args, k)])
              THEN ParameterError
              ELSE ArgsCheck(cmd, operation, params, d, k + 1, counter)
    ELSE IF counter >= Len(params) THEN IndexFailed
    ELSE IF \E x \in Range(At(params, counter)) :
                ~InRange(x, d.gate_parameters[At(operation.args, k)])
         THEN ParameterError
    ELSE ArgsCheck(cmd, operation, params, d, k + 1, counter + 1)

\* the third check, from operation ii of the layout on
RECURSIVE ParameterCheck(_, _, _, _, _)
ParameterCheck(circ, params, d, optimized, ii) ==
    IF ii >= Len(d.layout) THEN "none"
    ELSE IF ExtraArgsCheck(At(circ, ii), At(d.layout, ii), optimized) # "none"
         THEN ExtraArgsCheck(At(circ, ii), At(d.layout, ii), optimized)
    ELSE IF ArgsCheck(At(circ, ii), At(d.layout, ii), params, d, 0, 0) # "none"
         THEN ArgsCheck(At(circ, ii), At(d.layout, ii), params, d, 0, 0)
    ELSE ParameterCheck(circ, params, d, optimized, ii + 1)

\* a faulty first check: only the numbers of operations are compared
GatesDifferInLength(circ, d) == Len(device_gates(d)) # Len(program_gates(circ))

\* first check: device_gates != program_gates
GatesDiffer(circ, d) == device_gates(d) # program_gates(circ)

\* a faulty second check: the modes of a position are compared as sets
ModesDifferAsSets(circ, d) ==
    \/ Len(program_modes(circ)) # Len(device_modes(d))
    \/ \E k \in DOMAIN circ : Range(program_modes(circ)[k]) # Range(device_modes(d)[k])

\* second check: program_modes != device_modes
ModesDiffer(circ, d) == program_modes(circ) # device_modes(d)

\* a faulty compile: the mode wiring is checked before the gates
CompileResultModesFirst(circ, params, d, optimized) ==
    IF ModesDiffer(circ, d) THEN ModeOrderingError
    ELSE IF GatesDiffer(circ, d) THEN TopologyError
    ELSE ParameterCheck(circ, params, d, optimized, 0)

\* the exception compile raises, or "none"
CompileResult(circ, params, d, optimized) ==
    IF GatesDiffer(circ, d) THEN TopologyError
    ELSE IF ModesDiffer(circ, d) THEN ModeOrderingError
    ELSE ParameterCheck(circ, params, d, optimized, 0)

\* a faulty compile: it rolls the program before validating it
CompileRolling(d, optimized) ==
    /\ pc = "idle"
    /\ rolled_circuit # None
    /\ device' = Some(d)
    /\ UNCHANGED samples
    /\ circuit' = rolled_circuit[1]
    /\ alias' = "rolled"
    /\ err' = CompileResult(rolled_circuit[1], tdm_params, d, optimized)
    /\ UNCHANGED <<N, rolled_circuit, unrolled_circuit, binding,
                   counts, measured_modes, pc, unrollLocals, computed>>

\* compile(device=d) on a program with a rolled circuit; optimized tells
\* whether the interpreter strips assert statements
Compile(d, optimized) ==
    /\ pc = "idle"
    /\ rolled_circuit # None
    /\ device' = Some(d)
    /\ UNCHANGED samples
    /\ err' = CompileResult(rolled_circuit[1], tdm_params, d, optimized)
    /\ UNCHANGED <<N, circuit, alias, rolled_circuit, unrolled_circuit, binding,
                   counts, measured_modes, pc, unrollLocals, computed>>

\* The programs of the compile tests on N = 2: three sequences alpha, phi,
\* theta of per-bin values, and a body  Sgate | q[1]; BSgate(p[0]) | (..);
\* Rgate | q[1]; MeasureHomodyne(p[2]) | q[0]  with one statement varied.
CompileArgs(alpha) ==
    <<alpha, <<IntArg(0), FloatArg(16)>>, <<IntArg(0), FloatArg(16)>>>>

GoodArgs == CompileArgs(<<FloatArg(8), IntArg(0)>>)
\* alpha = [137, 0]
AlphaBadArgs == CompileArgs(<<IntArg(137), IntArg(0)>>)
\* alpha holds the one value allowed for p0
AlphaSqueezeArgs == CompileArgs(<<FloatArg(6), FloatArg(6)>>)
\* alpha within [0, 2 pi] but beyond pi
AlphaWideArgs == CompileArgs(<<FloatArg(40), IntArg(0)>>)
\* phi beyond pi
PhiBadArgs ==
    <<<<FloatArg(8), IntArg(0)>>, <<IntArg(0), FloatArg(50)>>,
      <<IntArg(0), FloatArg(16)>>>>

CompileArgInputs == {GoodArgs, AlphaBadArgs, AlphaSqueezeArgs, AlphaWideArgs, PhiBadArgs}

FirstStatements ==
    {Cmd("Sgate", <<1>>, <<FloatArg(6), FloatArg(0)>>),
     Cmd("Sgate", <<1>>, <<FloatArg(6), FloatArg(4)>>),
     Cmd("Sgate", <<1>>, <<IntArg(2), FloatArg(0)>>),
     Cmd("Sgate", <<1>>, <<FloatArg(20), FloatArg(0)>>),
     Cmd("Dgate", <<1>>, <<FloatArg(6), FloatArg(0)>>)}

SecondStatements ==
    {Cmd("BSgate", <<1, 0>>, <<SymArg(ParamName(0)), FloatArg(0)>>),
     Cmd("BSgate", <<0, 1>>, <<SymArg(ParamName(0)), FloatArg(0)>>)}

CompileBodies ==
    {<<g1, g2,
       Cmd("Rgate", <<1>>, <<SymArg(ParamName(1))>>),
       Cmd("MeasureHomodyne", <<0>>, <<SymArg(ParamName(2))>>)>> :
         g1 \in FirstStatements, g2 \in SecondStatements}

InitCompile == Init /\ N = <<2>>

NextCompile ==
    \/ \E args \in CompileArgInputs :
           Context(args, [isint |-> TRUE, v |-> 1], DefaultPolicy)
    \/ Enter
    \/ \E b \in CompileBodies : \E k \in DOMAIN b : AppendFrom(CompileBodies, b[k])
    \/ Exit
    \/ Roll
    \/ UnrollCached
    \/ UnrollBegin
    \/ UnrollApplyOp
    \/ UnrollShift
    \/ UnrollEnd
    \/ \E d \in Devices, optimized \in BOOLEAN : Compile(d, optimized)

SpecCompile == InitCompile /\ [][NextCompile]_vars

(***************************************************************************)
(* assert_number_of_modes(device), called on a constructed program of any   *)
(* band spec.                                                               *)
(***************************************************************************)
\* the exception assert_number_of_modes raises, or "none"
assert_number_of_modes(d) ==
    IF timebins > d.modes.temporal.max THEN TemporalError
    ELSE IF concurr_modes > d.modes.concurrent THEN ConcurrentError
    ELSE IF spatial_modes > d.modes.spatial THEN MessageFailed
    ELSE "none"

AssertNumberOfModes(d) ==
    /\ pc = "idle"
    /\ rolled_circuit # None
    /\ device' = Some(d)
    /\ UNCHANGED samples
    /\ err' = assert_number_of_modes(d)
    /\ UNCHANGED <<N, circuit, alias, rolled_circuit, unrolled_circuit, binding,
                   counts, measured_modes, pc, unrollLocals, computed>>

CapacityDevices == {TestDevice, ShortDevice, WideDevice}

NextCapacity ==
    \/ \E args \in {DocArgs, OneArgs} :
           Context(args, [isint |-> TRUE, v |-> 1], DefaultPolicy)
    \/ Enter
    \/ \E b \in Bodies(N) : \E k \in DOMAIN b : AppendCmd(b[k])
    \/ Exit
    \/ \E d \in CapacityDevices : AssertNumberOfModes(d)

SpecCapacity == Init /\ [][NextCapacity]_vars

(***************************************************************************)
(* reshape_samples(all_samples, modes, N).  A dict is a function from its   *)
(* keys to lists; an outcome is the number of its place in the recording    *)
(* (1 is the first outcome recorded, 2 the second, ...).                    *)
(***************************************************************************)
\* ceil(a / b) for positive b
Ceil(a, b) == (a + b - 1) \div b

\* l * n for a list l
RECURSIVE Repeat(_, _)
Repeat(l, n) == IF n <= 0 THEN <<>> ELSE l \o Repeat(l, n - 1)

MaxOf(n) == CHOOSE m \in Range(n) : \A x \in Range(n) : x <= m
MinOf(S) == CHOOSE m \in S : \A x \in S : m <= x

\* all_modes[b]: the registers of band b, repeated ceil(max(N) / N[b]) times
all_modes(n, b) ==
    Repeat([k \in 1..n[b] |-> Sum(SubSeq(n, 1, b - 1)) + k - 1], Ceil(MaxOf(n), n[b]))

\* [i for j in zip(*all_modes) for i in j]: zip stops at the shortest list
ZippedModes(n) ==
    [k \in 1..(Len(n) * MinOf({Len(all_modes(n, b)) : b \in DOMAIN n})) |->
        all_modes(n, ((k - 1) % Len(n)) + 1)[((k - 1) \div Len(n)) + 1]]

\* _get_mode_order(num_of_values, N)
get_mode_order(num_of_values, n) ==
    SliceTo(Repeat(ZippedModes(n), Ceil(num_of_values, Len(ZippedModes(n)))),
            num_of_values)

\* len([i for j in all_samples.values() for i in j])
RECURSIVE CountValues(_)
CountValues(d) ==
    IF DOMAIN d = {} THEN 0
    ELSE LET k == CHOOSE x \in DOMAIN d : TRUE
         IN  Len(d[k]) + CountValues([x \in DOMAIN d \ {k} |-> d[x]])

KeyFailed == "KeyError"

\* new_samples[idx].append(v), with new_samples[idx] = [] first if missing
DictAppend(d, idx, v) ==
    [k \in DOMAIN d \cup {idx} |->
        IF k = idx THEN (IF idx \in DOMAIN d THEN Append(d[idx], v) ELSE <<v>>)
        ELSE d[k]]

\* a faulty loop: the newest pending outcome is taken (pop() for pop(0))
RECURSIVE ReshapeFromNewest(_, _, _, _, _, _)
ReshapeFromNewest(mode_order, ii, rest, out, modes, n) ==
    IF ii >= Len(mode_order) THEN [err |-> "none", rest |-> rest, out |-> out]
    ELSE IF ii % Len(n) >= Len(modes)
         THEN [err |-> IndexFailed, rest |-> rest, out |-> out]
    ELSE IF At(mode_order, ii) \notin DOMAIN rest
         THEN [err |-> KeyFailed, rest |-> rest, out |-> out]
    ELSE IF rest[At(mode_order, ii)] = <<>>
         THEN [err |-> IndexFailed, rest |-> rest, out |-> out]
    ELSE ReshapeFromNewest(mode_order, ii + 1,
             [rest EXCEPT ![At(mode_order, ii)] = SubSeq(@, 1, Len(@) - 1)],
             DictAppend(out, At(modes, ii % Len(n)),
                        rest[At(mode_order, ii)][Len(rest[At(mode_order, ii)])]),
             modes, n)

\* a faulty loop: a scheduled register without a pending outcome is skipped
RECURSIVE ReshapeFromSkipping(_, _, _, _, _, _)
ReshapeFromSkipping(mode_order, ii, rest, out, modes, n) ==
    IF ii >= Len(mode_order) THEN [err |-> "none", rest |-> rest, out |-> out]
    ELSE IF ii % Len(n) >= Len(modes)
         THEN [err |-> IndexFailed, rest |-> rest, out |-> out]
    ELSE IF \/ At(mode_order, ii) \notin DOMAIN rest
            \/ rest[At(mode_order, ii)] = <<>>
         THEN ReshapeFromSkipping(mode_order, ii + 1, rest, out, modes, n)
    ELSE ReshapeFromSkipping(mode_order, ii + 1,
             [rest EXCEPT ![At(mode_order, ii)] = Tail(@)],
             DictAppend(out, At(modes, ii % Len(n)),
                        Head(rest[At(mode_order, ii)])),
             modes, n)

\* the loop of reshape_samples from position ii (0-based) of mode_order on:
\* [err, rest, out] with rest the dict all_samples as the pops left it
RECURSIVE ReshapeFrom(_, _, _, _, _, _)
ReshapeFrom(mode_order, ii, rest, out, modes, n) ==
    IF ii >= Len(mode_order) THEN [err |-> "none", rest |-> rest, out |-> out]
    ELSE IF ii % Len(n) >= Len(modes)
         THEN [err |-> IndexFailed, rest |-> rest, out |-> out]
    ELSE IF At(mode_order, ii) \notin DOMAIN rest
         THEN [err |-> KeyFailed, rest |-> rest, out |-> out]
    ELSE IF rest[At(mode_order, ii)] = <<>>
         THEN [err |-> IndexFailed, rest |-> rest, out |-> out]
    ELSE ReshapeFrom(mode_order, ii + 1,
                     [rest EXCEPT ![At(mode_order, ii)] = Tail(@)],
                     DictAppend(out, At(modes, ii % Len(n)),
                                Head(rest[At(mode_order, ii)])),
                     modes, n)

reshape_samples(raw, modes, n) ==
    ReshapeFrom(get_mode_order(CountValues(raw), n), 0, raw, <<>>, modes, n)

\* a faulty call: reshape_samples works on a copy of the raw samples
ReshapeSamplesOnCopy(raw, modes) ==
    /\ pc = "idle"
    /\ reshape_args = None
    /\ reshape_args' = Some([all_samples |-> raw, modes |-> modes])
    /\ \E res \in {reshape_samples(raw, modes, N)} :
           /\ all_samples' = Some(raw)
           /\ new_samples' = IF res.err = "none" THEN Some(res.out) ELSE None
           /\ err' = res.err
    /\ UNCHANGED <<N, device, circuit, alias, rolled_circuit, unrolled_circuit,
                   binding, counts, measured_modes, pc, unrollLocals, computed>>

\* a call reshape_samples(raw, modes, N)
ReshapeSamples(raw, modes) ==
    /\ pc = "idle"
    /\ reshape_args = None
    /\ reshape_args' = Some([all_samples |-> raw, modes |-> modes])
    /\ \E res \in {reshape_samples(raw, modes, N)} :
           /\ all_samples' = Some(res.rest)
           /\ new_samples' = IF res.err = "none" THEN Some(res.out) ELSE None
           /\ err' = res.err
    /\ UNCHANGED <<N, device, circuit, alias, rolled_circuit, unrolled_circuit,
                   binding, counts, measured_modes, pc, unrollLocals, computed>>

\* The raw samples of a recording: ms lists, outcome by outcome, the
\* register it was recorded under; each register of ms gets the list of its
\* outcomes in recording order.
Recorded(ms) ==
    [r \in Range(ms) |->
        SelectSeq([k \in 1..Len(ms) |-> k], LAMBDA k : ms[k] = r)]

MaxOutcomes == 4

\* six outcomes alternating over the two registers of N = [2], and six
\* outcomes under register 0 only
AlternatingRecording == <<0, 1, 0, 1, 0, 1>>
SingleRegisterRecording == <<0, 0, 0, 0, 0, 0>>

RecordingInputs(n) ==
    UNION {[1..k -> 0..(Sum(n) - 1)] : k \in 0..MaxOutcomes}
        \cup (IF n = <<2>> THEN {AlternatingRecording, SingleRegisterRecording}
              ELSE {})

\* the declared measured modes: one register per band
ModesInputs(n) == [1..Len(n) -> 0..(Sum(n) - 1)]

ReshapeBandSpecs == {<<2>>, <<3>>, <<1, 1>>, <<1, 2>>, <<2, 3>>}

InitReshape == Init /\ N \in ReshapeBandSpecs

\* one call per behaviour
NextReshape ==
    /\ reshape_args = None
    /\ \E ms \in RecordingInputs(N), modes \in ModesInputs(N) :
           ReshapeSamples(Recorded(ms), modes)

SpecReshape == InitReshape /\ [][NextReshape]_vars

(***************************************************************************)
(* Vocabulary of the properties.                                            *)
(***************************************************************************)
Rolled == rolled_circuit[1]
Unrolled == unrolled_circuit[1]
Unrolling == pc = "unroll"
UnrollDone == unrolled_circuit # None

\* the time step and the rolled position of the k-th emitted command (k >= 1)
StepOf(k) == (k - 1) \div Len(Rolled)
PosOf(k) == (k - 1) % Len(Rolled)

\* the register tuple after t end-of-bin shifts of the program's policy
RECURSIVE ShiftsApplied(_)
ShiftsApplied(t) ==
    IF t = 0 THEN Register(N) ELSE EndOfBinShift(ShiftsApplied(t - 1), N, shift)

\* the band (1-based) a register index lies in
BandOf(r) == CHOOSE b \in DOMAIN N : Slice(N, b)[1] <= r /\ r < Slice(N, b)[2]

\* C1: the unrolled circuit is, for t = 0 .. total_timebins-1 in order, one
\* command per rolled command in rolled order: while unroll() runs it has
\* emitted i full steps and j commands of step i, and q is the register after
\* exactly i shifts; the k-th command has the operation of rolled command
\* PosOf(k) and the registers selected from the register after StepOf(k)
\* shifts; when the circuit is cached it has total_timebins * len(rolled)
\* commands and the loop has run exactly total_timebins steps.
C1_UnrollOrder ==
    (Unrolling \/ UnrollDone) =>
        /\ i <= total_timebins
        /\ j < Len(Rolled) \/ (j = Len(Rolled) /\ Unrolling /\ i < total_timebins)
        /\ i = total_timebins => j = 0
        /\ q = ShiftsApplied(i)
        /\ Unrolling => Len(circuit) = i * Len(Rolled) + j
        /\ UnrollDone =>
               /\ i = total_timebins
               /\ Len(Unrolled) = total_timebins * Len(Rolled)
        /\ LET emitted == IF UnrollDone THEN Unrolled ELSE circuit
           IN \A k \in DOMAIN emitted :
                  /\ emitted[k].op = At(Rolled, PosOf(k)).op
                  /\ emitted[k].reg = get_modes(At(Rolled, PosOf(k)), ShiftsApplied(StepOf(k)))

C1_Witness ==
    /\ UnrollDone
    /\ pc = "idle"
    /\ Len(N) = 2
    /\ shift = DefaultPolicy
    /\ total_timebins >= 4
    /\ Len(Unrolled) = total_timebins * Len(Rolled)
    /\ Unrolled[Len(Unrolled)].reg # Rolled[Len(Rolled)].reg

\* C2: under the default policy each band's window rotates left by one at the
\* end of every time step, independently of the other bands: after i steps the
\* register tuple holds o_b + ((s + i) mod N[b]) at slot s of band b, and a
\* command of step t targets o_b + ((s + t) mod N[b]) for each rolled register
\* o_b + s.
DefaultTarget(r, t) ==
    Slice(N, BandOf(r))[1] + ((r - Slice(N, BandOf(r))[1] + t) % N[BandOf(r)])

C2_DefaultShiftPerBand ==
    ((Unrolling \/ UnrollDone) /\ shift = DefaultPolicy) =>
        /\ \A r \in 0..(concurr_modes - 1) : At(q, r) = DefaultTarget(r, i)
        /\ LET emitted == IF UnrollDone THEN Unrolled ELSE circuit
           IN \A k \in DOMAIN emitted :
                  \A m \in DOMAIN emitted[k].reg :
                      emitted[k].reg[m] = DefaultTarget(At(Rolled, PosOf(k)).reg[m], StepOf(k))

C2_Witness ==
    /\ UnrollDone
    /\ shift = DefaultPolicy
    /\ N = <<2, 3>>
    /\ \E k \in DOMAIN Unrolled : StepOf(k) = 5 /\ Unrolled[k].reg = <<1>>
    /\ \E k \in DOMAIN Unrolled : StepOf(k) = 5 /\ Unrolled[k].reg = <<4>>

\* C3: under an integer policy n the whole register rotates left by n at the
\* end of every time step, for every integer n: after i steps the register
\* tuple holds (r + i*n) mod pool at index r, and a command of step t targets
\* (r + t*n) mod pool for each rolled register r.
IntTarget(r, t) == (r + t * shift.n) % concurr_modes

C3_IntegerShiftRotates ==
    ((Unrolling \/ UnrollDone) /\ shift.kind = "int") =>
        /\ \A r \in 0..(concurr_modes - 1) : At(q, r) = IntTarget(r, i)
        /\ LET emitted == IF UnrollDone THEN Unrolled ELSE circuit
           IN \A k \in DOMAIN emitted :
                  \A m \in DOMAIN emitted[k].reg :
                      emitted[k].reg[m] = IntTarget(At(Rolled, PosOf(k)).reg[m], StepOf(k))

\* C4: in the unrolled circuit every argument is concrete: a placeholder p_n
\* of a rolled command, at any argument position, is emitted at step t as the
\* value at index t mod timebins of the sequence bound to p_n, and a concrete
\* argument is emitted unchanged.
Resolved(a, t) ==
    IF ParIsSymbolic(a)
    THEN At(At(tdm_params, CHOOSE n \in 0..(Len(loop_vars) - 1) : loop_vars[n + 1] = a.name),
            t % timebins)
    ELSE a

C4_AllArgumentsResolved ==
    UnrollDone =>
        \A k \in DOMAIN Unrolled :
            /\ Len(Unrolled[k].p) = Len(At(Rolled, PosOf(k)).p)
            /\ \A m \in DOMAIN Unrolled[k].p :
                   /\ ~ParIsSymbolic(Unrolled[k].p[m])
                   /\ Unrolled[k].p[m] = Resolved(At(Rolled, PosOf(k)).p[m], StepOf(k))

\* C5: the documented example.  N = 2, sequences [1, 2] and [3, 4], copies = 3,
\* default shift, rolled circuit Sgate(0.7, 0) | q[1]; BSgate(p0, 0) |
\* (q[0], q[1]); MeasureHomodyne(p1) | q[0]: unroll() yields 18 commands in 6
\* time steps, the even and the odd steps as printed in the documentation.
ExampleRolled ==
    <<Cmd("Sgate", <<1>>, <<FloatArg(7), IntArg(0)>>),
      Cmd("BSgate", <<0, 1>>, <<SymArg(<<"p", "0">>), IntArg(0)>>),
      Cmd("MeasureHomodyne", <<0>>, <<SymArg(<<"p", "1">>)>>)>>

ExampleEvenStep ==
    <<Cmd("Sgate", <<1>>, <<FloatArg(7), IntArg(0)>>),
      Cmd("BSgate", <<0, 1>>, <<IntArg(1), IntArg(0)>>),
      Cmd("MeasureHomodyne", <<0>>, <<IntArg(3)>>)>>

ExampleOddStep ==
    <<Cmd("Sgate", <<0>>, <<FloatArg(7), IntArg(0)>>),
      Cmd("BSgate", <<1, 0>>, <<IntArg(2), IntArg(0)>>),
      Cmd("MeasureHomodyne", <<1>>, <<IntArg(4)>>)>>

ExampleBound ==
    /\ N = <<2>>
    /\ tdm_params = <<<<IntArg(1), IntArg(2)>>, <<IntArg(3), IntArg(4)>>>>
    /\ copies = 3
    /\ shift = DefaultPolicy
    /\ rolled_circuit = Some(ExampleRolled)

C5_DocumentedExample ==
    (ExampleBound /\ UnrollDone) =>
        /\ Len(Unrolled) = 18
        /\ total_timebins = 6
        /\ Unrolled = ExampleEvenStep \o ExampleOddStep \o ExampleEvenStep
                          \o ExampleOddStep \o ExampleEvenStep \o ExampleOddStep

C5_Witness == ExampleBound /\ UnrollDone /\ circuit = Unrolled /\ Len(circuit) = 18

\* C6: unroll() is idempotent and its cache is written once: a circuit is
\* built at most once, a cached circuit never changes, and a circuit
\* activated from the cache is the cached one.
C6_UnrollCacheWriteOnce ==
    /\ [](computed <= 1)
    /\ []((alias = "unrolled" /\ pc = "idle") => (UnrollDone /\ circuit = Unrolled))
    /\ [][UnrollDone => unrolled_circuit' = unrolled_circuit]_vars

C6_Witness == alias = "unrolled" /\ UnrollDone /\ computed = 1 /\ Len(circuit) >= 18

\* C7: roll() and unroll() never change the stored rolled circuit, and the
\* circuit roll() activates is the stored one, also after unroll().
C7_RollRestoresRolled ==
    /\ []((alias = "rolled" /\ pc = "idle") => (rolled_circuit # None /\ circuit = Rolled))
    /\ [][rolled_circuit # None => rolled_circuit' = rolled_circuit]_vars

C7_Witness == alias = "rolled" /\ UnrollDone /\ circuit = Rolled /\ circuit # Unrolled

\* C8: with a single band, unrolling under the default policy and under the
\* integer policy 1 give the same circuit: the circuit unroll() built under
\* either policy is the unrolling of the rolled circuit under both.
C8_SingleBandDefaultIsShiftOne ==
    (UnrollDone /\ Len(N) = 1 /\ shift \in {DefaultPolicy, IntPolicy(1)}) =>
        /\ Unrolled = UnrollFrom(Rolled, Register(N), 0, DefaultPolicy)
        /\ Unrolled = UnrollFrom(Rolled, Register(N), 0, IntPolicy(1))

C8_Witness ==
    /\ UnrollDone
    /\ N = <<3>>
    /\ shift = IntPolicy(1)
    /\ total_timebins >= 4
    /\ Unrolled = UnrollFrom(Rolled, Register(N), 0, DefaultPolicy)
    /\ Unrolled # UnrollFrom(Rolled, Register(N), 0, IntPolicy(2))

\* C9: context() with value sequences of unequal lengths fails with the
\* length-mismatch error, binds nothing and does not reach the with block, so
\* no command is accepted.
UnequalLengths(args) == \E a, b \in DOMAIN args : Len(args[a]) # Len(args[b])

C9_UnequalLengthsRejected ==
    /\ [](err = UnequalLength => (pc = "idle" /\ circuit = <<>> /\ tdm_params = None))
    /\ [][\A args \in ArgInputs, c \in CopiesInputs, s \in ShiftInputs :
              (Context(args, c, s) /\ UnequalLengths(args)) =>
                  /\ err' = UnequalLength
                  /\ pc' = "idle"
                  /\ UNCHANGED <<circuit, binding>>]_vars

C9_Witness == err = UnequalLength /\ pc = "idle" /\ circuit = <<>> /\ loop_vars = <<>>

\* C10: context(), given value sequences of one common length, accepts the
\* copies value exactly if it is an integer >= 1; any other value fails with
\* "Number of copies must be a positive integer." and binds nothing.
EqualLengths(args) == args # <<>> /\ ~UnequalLengths(args)

C10_CopiesPositiveInteger ==
    [][\A args \in ArgInputs, c \in CopiesInputs, s \in ShiftInputs :
           (Context(args, c, s) /\ EqualLengths(args)) =>
               IF c.isint /\ c.v >= 1
               THEN err' = "none" /\ pc' = "bound" /\ copies' = c.v
               ELSE err' = BadCopies /\ pc' = "idle" /\ UNCHANGED binding]_vars

C10_Witness == err = BadCopies /\ pc = "idle" /\ tdm_params = None /\ copies = 0

\* C11: leaving the with block without an exception on a circuit with no
\* measurement command fails with "Must be at least one measurement.", for
\* every band spec, and stores nothing.
NoMeasurementCommand(circ) == \A k \in DOMAIN circ : ~IsMeasurement(circ[k].op)

C11_NoMeasurementRejected ==
    [][(Exit /\ NoMeasurementCommand(circuit)) =>
           /\ err' = NoMeasurement
           /\ UNCHANGED <<counts, rolled_circuit>>]_vars

C11_Witness ==
    /\ err = NoMeasurement
    /\ Len(N) = 2
    /\ circuit # <<>>
    /\ NoMeasurementCommand(circuit)
    /\ rolled_circuit = None

\* C12: a circuit with at least one measurement is accepted at exit exactly
\* if the total number of target registers of its measurement commands
\* equals len(N), and fails with the count-mismatch error otherwise; a stored
\* rolled circuit therefore has spatial_modes = len(N) = measurement count.
C12_MeasurementsMatchBands ==
    /\ [](rolled_circuit # None =>
              /\ spatial_modes = Len(N)
              /\ CountMeasured(Rolled) = Len(N))
    /\ [][(Exit /\ CountMeasured(circuit) >= 1) =>
              IF CountMeasured(circuit) = Len(N)
              THEN /\ err' = "none"
                   /\ rolled_circuit' = Some(circuit)
                   /\ spatial_modes' = Len(N)
              ELSE /\ err' = MeasurementMismatch
                   /\ UNCHANGED <<counts, rolled_circuit>>]_vars

\* one measurement command on two registers is accepted for two bands
C12_Witness ==
    /\ rolled_circuit # None
    /\ N = <<1, 2>>
    /\ spatial_modes = 2
    /\ Len(SelectSeq(Rolled, LAMBDA c : IsMeasurement(c.op))) = 1

\* one measurement command on two registers is rejected for one band
C12_WitnessRejected ==
    /\ err = MeasurementMismatch
    /\ Len(N) = 1
    /\ CountMeasured(circuit) = 2

\* C14: the slices of the bands of N partition the register pool: band b
\* starts where band b - 1 stops (the first at 0, so at the sum of the
\* preceding band sizes), has length N[b], the last stops at sum(N), and
\* every register index of [0, sum(N)) lies in exactly one band's slice.
BandIndices(n, b) == Range(SliceGet(Register(n), Slice(n, b)))

C13_CountsAndParameterTable ==
    /\ [][\A args \in ArgInputs, c \in CopiesInputs, s \in ShiftInputs :
              (Context(args, c, s) /\ pc' = "bound") =>
                  tdm_params' = args /\ copies' = c.v]_vars
    /\ [](rolled_circuit # None =>
              /\ \A k \in DOMAIN tdm_params : Len(tdm_params[k]) = timebins
              /\ total_timebins = timebins * copies
              /\ DOMAIN parameters = {<<"p">> \o Decimal(m - 1) : m \in DOMAIN tdm_params}
              /\ \A m \in DOMAIN tdm_params :
                     /\ parameters[<<"p">> \o Decimal(m - 1)] = tdm_params[m]
                     /\ ParseInt(Tail(loop_vars[m])) = m - 1)

\* two sequences of length 4 repeated three times on N = 2
C13_Witness ==
    /\ rolled_circuit # None
    /\ N = <<2>>
    /\ tdm_params = FourArgs
    /\ copies = 3
    /\ timebins = 4
    /\ total_timebins = 12
    /\ parameters = [nm \in {<<"p", "0">>, <<"p", "1">>} |->
                         IF nm = <<"p", "0">> THEN FourArgs[1] ELSE FourArgs[2]]

\* two lists differ in length or in the entry of some position
ListsDiffer(a, b) == Len(a) # Len(b) \/ \E k \in DOMAIN a : a[k] # b[k]

GateNames(circ) == [k \in DOMAIN circ |-> circ[k].op]
LayoutNames(d) == [k \in DOMAIN d.layout |-> d.layout[k].op]
GatesMatch(d) == ~ListsDiffer(GateNames(Rolled), LayoutNames(d))
WiringMatches(d) ==
    \A k \in DOMAIN Rolled :
        k \in DOMAIN d.layout => Rolled[k].reg = d.layout[k].modes

C15_WitnessOmitted ==
    /\ err = TopologyError
    /\ device = Some(OmitDevice)
    /\ ~ListsDiffer(GateNames(Rolled), LayoutNames(TestDevice))

\* equal lists: no topology error
C15_WitnessEqual ==
    /\ err = "none"
    /\ device = Some(TestDevice)
    /\ GateNames(Rolled) = LayoutNames(TestDevice)

\* C16: when the gate sequences match, compile(device) raises the
\* mode-ordering error if at some position the registers of the rolled
\* command, as an ordered sequence, differ from the modes the layout
\* declares there.
C16_ModeOrderingError ==
    [][\A d \in Devices, optimized \in BOOLEAN :
           (Compile(d, optimized) /\ GatesMatch(d) /\ ~WiringMatches(d)) =>
               err' = ModeOrderingError]_vars

\* BSgate on (q[0], q[1]) where the layout declares (1, 0)
C16_Witness ==
    /\ err = ModeOrderingError
    /\ device = Some(TestDevice)
    /\ Rolled[2].reg = <<0, 1>>
    /\ TestDevice.layout[2].modes = <<1, 0>>

\* C17: compile(device) reports the first failing check of gate sequence,
\* mode wiring, parameter ranges: a gate-sequence violation gets the
\* topology error whatever else is violated, a wiring violation gets the
\* mode-ordering error whatever parameter is out of range, and a parameter
\* error is raised only if gates and wiring match.
C17_ChecksInOrder ==
    [][\A d \in Devices, optimized \in BOOLEAN :
           Compile(d, optimized) =>
               /\ ~GatesMatch(d) => err' = TopologyError
               /\ (GatesMatch(d) /\ ~WiringMatches(d)) => err' = ModeOrderingError
               /\ err' \in {ParameterError, AssertFailed, IndexFailed} =>
                      (GatesMatch(d) /\ WiringMatches(d))]_vars

\* topology error for a circuit that also violates the wiring and a range
C17_Witness ==
    /\ err = TopologyError
    /\ device = Some(TestDevice)
    /\ Rolled[1].op = "Dgate"
    /\ Rolled[2].reg = <<0, 1>>
    /\ tdm_params = AlphaBadArgs

\* mode-ordering error for a circuit that also violates a range
C17_WitnessWiringFirst ==
    /\ err = ModeOrderingError
    /\ device = Some(TestDevice)
    /\ Rolled[1] = Cmd("Sgate", <<1>>, <<FloatArg(20), FloatArg(0)>>)
    /\ tdm_params = AlphaBadArgs

\* the range the layout of d declares for slot m of position k
SlotRange(d, k, m) == d.gate_parameters[d.layout[k].args[m]]

\* the declared slots of position k that the rolled command fills
FilledSlots(d, k) == 1..Min(Len(d.layout[k].args), Len(Rolled[k].p))

\* a concrete number in a declared slot lies outside the slot's range
ConcreteOutOfRange(d) ==
    \E k \in DOMAIN Rolled : \E m \in FilledSlots(d, k) :
        /\ Rolled[k].p[m].tag \in {"int", "float"}
        /\ ~InRange(Rolled[k].p[m], SlotRange(d, k, m))

\* a placeholder in a declared slot is bound to a sequence with a value
\* outside the slot's range
SymbolicOutOfRange(d) ==
    \E k \in DOMAIN Rolled : \E m \in FilledSlots(d, k) :
        /\ Rolled[k].p[m].tag = "sym"
        /\ \E x \in Range(parameters[Rolled[k].p[m].name]) :
               ~InRange(x, SlotRange(d, k, m))

\* a command carries a non-zero argument beyond the declared ones
ExtraNonZero(d) ==
    \E k \in DOMAIN Rolled :
        \E m \in (Len(d.layout[k].args) + 1)..Len(Rolled[k].p) :
            ~IsZero(Rolled[k].p[m])

\* C18: when gates and wiring match, compile(device) raises the parameter
\* error whenever a concrete number in a declared slot, written as an
\* integer or as a float, lies outside the slot's range, whatever the value
\* sequences hold.
C18_ConcreteArgumentChecked ==
    [][\A d \in Devices, optimized \in BOOLEAN :
           (/\ Compile(d, optimized)
            /\ GatesMatch(d)
            /\ WiringMatches(d)
            /\ ~ExtraNonZero(d)
            /\ ConcreteOutOfRange(d)) => err' = ParameterError]_vars

\* C19: when gates and wiring match, compile(device) raises the parameter
\* error whenever a placeholder in a declared slot is bound to a sequence
\* with a value outside the slot's range, and raises it only if some slot's
\* own argument (its number, or the sequence of its placeholder) is out of
\* range.
C19_PlaceholderSequenceChecked ==
    [][\A d \in Devices, optimized \in BOOLEAN :
           (/\ Compile(d, optimized)
            /\ GatesMatch(d)
            /\ WiringMatches(d)
            /\ ~ExtraNonZero(d)) =>
               /\ SymbolicOutOfRange(d) => err' = ParameterError
               /\ err' = ParameterError =>
                      (SymbolicOutOfRange(d) \/ ConcreteOutOfRange(d))]_vars

\* C20: when gates and wiring match and a command carries a non-zero
\* argument beyond the ones the layout declares for it, compile(device)
\* raises the parameter error.
C20_ExtraArgumentsMustBeZero ==
    [][\A d \in Devices, optimized \in BOOLEAN :
           (/\ Compile(d, optimized)
            /\ GatesMatch(d)
            /\ WiringMatches(d)
            /\ ExtraNonZero(d)) => err' = ParameterError]_vars

\* C21: compile(device) raises the capacity error naming the temporal modes
\* whenever the program's time-bin count exceeds the maximum the device
\* declares, also when gates, wiring and parameters match the layout.
C21_CompileChecksTemporalModes ==
    [][\A d \in Devices, optimized \in BOOLEAN :
           (Compile(d, optimized) /\ timebins > d.modes.temporal.max) =>
               err' = TemporalError]_vars

\* C23: compile(device) changes nothing of the program, whether it raises
\* or not and whichever circuit is active: the active circuit, the stored
\* rolled and unrolled circuits, the parameter table, copies, shift and the
\* counts stay as they are.
C23_CompileChangesNothing ==
    [][\A d \in Devices, optimized \in BOOLEAN :
           Compile(d, optimized) =>
               UNCHANGED <<N, circuit, alias, rolled_circuit, unrolled_circuit,
                           copies, tdm_params, shift, loop_vars, timebins,
                           total_timebins, spatial_modes, measured_modes>>]_vars

\* a failing compile called while the unrolled circuit is active
C23_Witness ==
    /\ err = ParameterError
    /\ device = Some(TestDevice)
    /\ alias = "unrolled"
    /\ circuit = Unrolled
    /\ circuit # Rolled

\* a succeeding compile called while the rolled circuit is active
C23_WitnessRolled ==
    /\ err = "none"
    /\ device = Some(TestDevice)
    /\ alias = "rolled"
    /\ unrolled_circuit # None

\* C22: assert_number_of_modes(device) raises a capacity error naming the
\* concurrent modes whenever the program's concurrent-mode count differs
\* from the device's, and one naming the spatial modes whenever the
\* spatial-mode count differs from the device's, be the program's count
\* larger or smaller (the temporal check, which comes first, permitting).
C22_ModeCountsMustBeEqual ==
    [][\A d \in CapacityDevices :
           (AssertNumberOfModes(d) /\ timebins <= d.modes.temporal.max) =>
               /\ concurr_modes # d.modes.concurrent => err' = ConcurrentError
               /\ (/\ concurr_modes = d.modes.concurrent
                   /\ spatial_modes # d.modes.spatial) => err' = SpatialError]_vars

\* the registers the measurement commands of a circuit act on, in order
RECURSIVE MeasuredSequence(_)
MeasuredSequence(circ) ==
    IF circ = <<>> THEN <<>>
    ELSE (IF IsMeasurement(Head(circ).op) THEN Head(circ).reg ELSE <<>>)
         \o MeasuredSequence(Tail(circ))

\* one measurement per band, on the band's first register, in band order
MeasurementsOf(circ) == SelectSeq(circ, LAMBDA c : IsMeasurement(c.op))

FirstRegisterPerBand ==
    /\ Len(MeasurementsOf(Rolled)) = Len(N)
    /\ \A b \in DOMAIN N : MeasurementsOf(Rolled)[b].reg = <<Slice(N, b)[1]>>

\* the schedule reshape_samples walks for the outcomes of the unrolled circuit
Schedule == get_mode_order(Len(MeasuredSequence(Unrolled)), N)

\* C24: under the default shift, with one measurement per band on the
\* band's first register in band order, the schedule of reshape_samples
\* equals, position for position, the registers the unrolled circuit
\* measures, for every band spec.
C24_ScheduleMatchesDefaultShift ==
    (UnrollDone /\ shift = DefaultPolicy /\ FirstRegisterPerBand) =>
        Schedule = MeasuredSequence(Unrolled)

\* the outcomes of band b in measurement order: one per time step
OutcomesOfBand(b) == [t \in 1..total_timebins |-> (t - 1) * Len(N) + b]

\* C25: for a program unrolled with an integer shift, the schedule of
\* reshape_samples equals the order in which the unrolled circuit measures
\* the registers, and reshaping the recorded outcomes succeeds and returns
\* each declared mode's outcomes in measurement order.
C25_ScheduleFollowsIntegerShift ==
    (UnrollDone /\ shift.kind = "int" /\ FirstRegisterPerBand) =>
        /\ Schedule = MeasuredSequence(Unrolled)
        /\ reshape_samples(Recorded(MeasuredSequence(Unrolled)), measured_modes, N).err
               = "none"
        /\ \A b \in DOMAIN N :
               reshape_samples(Recorded(MeasuredSequence(Unrolled)), measured_modes, N)
                   .out[measured_modes[b]] = OutcomesOfBand(b)

(***************************************************************************)
(* Vocabulary of the reshape_samples properties.                            *)
(***************************************************************************)
Reshaped == reshape_args # None
RawIn == reshape_args[1].all_samples
ModesIn == reshape_args[1].modes
Out == new_samples[1]
WalkedSchedule == get_mode_order(CountValues(RawIn), N)

\* how often register r occurs among the first k positions of a schedule
Requests(sched, r, k) == Cardinality({p \in 1..k : sched[p] = r})

\* the outcome position p (1-based) of the schedule takes: the oldest
\* pending one of the scheduled register
Taken(p) == RawIn[WalkedSchedule[p]][Requests(WalkedSchedule, WalkedSchedule[p], p)]

\* the positions of the schedule that go to the output key idx, ascending
PositionsFor(idx) ==
    SelectSeq([p \in 1..Len(WalkedSchedule) |-> p],
              LAMBDA p : ModesIn[((p - 1) % Len(N)) + 1] = idx)

\* the walk: every output entry holds, in order, the outcomes taken at the
\* positions that go to its key; the outcomes are kept, each exactly once
WalkedOnce ==
    /\ \A idx \in DOMAIN Out :
           Out[idx] = [k \in 1..Len(PositionsFor(idx)) |-> Taken(PositionsFor(idx)[k])]
    /\ CountValues(Out) = CountValues(RawIn)
    /\ \A r \in DOMAIN RawIn : \A k \in DOMAIN RawIn[r] :
           Cardinality({<<idx, m>> \in UNION {{idx} \X DOMAIN Out[idx] : idx \in DOMAIN Out} :
                           Out[idx][m] = RawIn[r][k]}) = 1
    /\ \A idx \in DOMAIN Out : \A a, b \in DOMAIN Out[idx] :
           \A r \in DOMAIN RawIn : \A k, m \in DOMAIN RawIn[r] :
               (Out[idx][a] = RawIn[r][k] /\ Out[idx][b] = RawIn[r][m] /\ k < m)
                   => a < b

\* C26 as stated: on success the walk is as described and the output keys
\* are exactly the declared measured modes.
C26_KeysAreDeclaredModes ==
    (Reshaped /\ err = "none") =>
        (WalkedOnce /\ DOMAIN Out = Range(ModesIn))

\* C26, amended: on success reshape_samples has walked the schedule once,
\* taking at position i the oldest pending outcome of the scheduled register
\* into the entry of modes[i mod len(N)]; each outcome appears exactly once,
\* the number of outcomes is kept, outcomes of one register keep their
\* order, and the keys are the declared modes of the positions walked: all
\* declared modes once len(N) outcomes or more are recorded.
C26_ReshapeWalksScheduleOnce ==
    (Reshaped /\ err = "none") =>
        /\ WalkedOnce
        /\ DOMAIN Out = {ModesIn[((p - 1) % Len(N)) + 1] : p \in 1..CountValues(RawIn)}
        /\ CountValues(RawIn) >= Len(N) => DOMAIN Out = Range(ModesIn)

\* the raw samples {0: [1, 3, 5], 1: [2, 4, 6]} of N = [2] reshaped to mode 0
C26_Witness ==
    /\ Reshaped
    /\ err = "none"
    /\ N = <<2>>
    /\ RawIn = Recorded(AlternatingRecording)
    /\ ModesIn = <<0>>
    /\ Out = [idx \in {0} |-> <<1, 2, 3, 4, 5, 6>>]

\* C27: reshape_samples raises, and returns nothing, whenever the schedule
\* asks a register for more outcomes than were recorded under it, a register
\* without any recorded outcome included.
OverRequested ==
    LET sched == WalkedSchedule
    IN  \E r \in Range(sched) :
            Requests(sched, r, Len(sched))
                > (IF r \in DOMAIN RawIn THEN Len(RawIn[r]) ELSE 0)

C27_OverRequestFails ==
    (Reshaped /\ OverRequested) => (err \in {KeyFailed, IndexFailed} /\ new_samples = None)

\* a scheduled register with no recorded outcome at all
C27_Witness ==
    /\ Reshaped
    /\ err = KeyFailed
    /\ new_samples = None
    /\ N = <<1, 2>>
    /\ 2 \in Range(WalkedSchedule)
    /\ 2 \notin DOMAIN RawIn

\* a scheduled register with fewer recorded outcomes than requested
C27_WitnessTooFew ==
    /\ Reshaped
    /\ err = IndexFailed
    /\ new_samples = None
    /\ DOMAIN RawIn = 0..(Sum(N) - 1)

\* C28: with N = [2] and the declared mode 0, the raw samples
\* {0: [1, 2, 3, 4, 5, 6]} are reshaped to {0: [1, 2, 3, 4, 5, 6]}.
C28_SingleRegisterScenario ==
    (/\ Reshaped
     /\ N = <<2>>
     /\ RawIn = Recorded(SingleRegisterRecording)
     /\ ModesIn = <<0>>) =>
        (err = "none" /\ new_samples = Some([idx \in {0} |-> <<1, 2, 3, 4, 5, 6>>]))

\* C29 as stated: after unroll() the recorded measured modes are the
\* registers some measurement command of the unrolled circuit acts on.
C29_MeasuredModesArePhysical ==
    UnrollDone => Range(measured_modes) = Range(MeasuredSequence(Unrolled))

\* C29, amended: after the first unroll() the recorded measured modes are,
\* in circuit order, the first target register of every measurement command
\* of the rolled circuit: the declared registers, whatever registers the
\* shifted commands of the unrolled circuit act on.
C29_MeasuredModesAreDeclared ==
    UnrollDone =>
        measured_modes =
            [k \in 1..Len(MeasurementsOf(Rolled)) |-> MeasurementsOf(Rolled)[k].reg[1]]

\* N = [2] under the default shift: register 0 is declared and recorded, the
\* unrolled circuit measures registers 0 and 1
C29_Witness ==
    /\ UnrollDone
    /\ N = <<2>>
    /\ shift = DefaultPolicy
    /\ measured_modes = <<0>>
    /\ Range(MeasuredSequence(Unrolled)) = {0, 1}

\* C30: while unroll() runs, under every shift policy, q is a permutation of
\* the register pool 0 .. sum(N)-1; so every register of an emitted command
\* is in the pool and the distinct registers of a rolled command are emitted
\* as distinct registers. Under the default policy every rolled register is
\* mapped to a register of its own band.
IsPermutationOfPool(qq) ==
    /\ Len(qq) = Sum(N)
    /\ Range(qq) = 0..(Sum(N) - 1)

C30_RegisterStaysPermutation ==
    /\ Unrolling =>
           /\ IsPermutationOfPool(q)
           /\ shift = DefaultPolicy =>
                  \A r \in 0..(Sum(N) - 1) : BandOf(At(q, r)) = BandOf(r)
           /\ \A k \in DOMAIN circuit :
                  /\ Range(circuit[k].reg) \subseteq 0..(Sum(N) - 1)
                  /\ Cardinality(Range(circuit[k].reg)) = Len(circuit[k].reg)
    /\ UnrollDone =>
           \A k \in DOMAIN Unrolled :
               /\ Range(Unrolled[k].reg) \subseteq 0..(Sum(N) - 1)
               /\ Cardinality(Range(Unrolled[k].reg)) = Len(Unrolled[k].reg)
               /\ shift = DefaultPolicy =>
                      \A m \in DOMAIN Unrolled[k].reg :
                          BandOf(Unrolled[k].reg[m]) = BandOf(At(Rolled, PosOf(k)).reg[m])

\* the register of N = [3] after one integer shift by 2
C30_Witness ==
    /\ Unrolling
    /\ N = <<3>>
    /\ shift = IntPolicy(2)
    /\ q = <<2, 0, 1>>

\* the register of N = [2, 3] after one default shift
C30_WitnessDefault ==
    /\ Unrolling
    /\ N = <<2, 3>>
    /\ shift = DefaultPolicy
    /\ q = <<1, 0, 3, 4, 2>>

(***************************************************************************)
(* A program constructed more than once: context() is called again on a    *)
(* bound program and a further with block appends to the active circuit,   *)
(* which after roll() or a cached unroll() is the stored list itself.      *)
(***************************************************************************)
\* apply_op raising IndexError: the value sequences bound now have no entry
\* for the placeholder or for the time bin, and unroll() is left by the
\* exception
UnrollApplyOpFails ==
    /\ pc = "unroll"
    /\ i < total_timebins
    /\ j < Len(rolled_circuit[1])
    /\ ~CanResolve(At(rolled_circuit[1], j).p, tdm_params, timebins, i)
    /\ err' = IndexFailed
    /\ pc' = "idle"
    /\ UNCHANGED <<N, device, samples, circuit, alias, rolled_circuit, unrolled_circuit,
                   binding, counts, measured_modes, unrollLocals, computed>>

\* the context() calls, as <<args, copies, shift>>: three that bind, and
\* calls with ragged or no sequences, with copies 0 or a non-integer
\* copies, and with ragged sequences and copies 0
IntCopies(c) == [isint |-> TRUE, v |-> c]
AgainCalls ==
    {<<DocArgs, IntCopies(1), DefaultPolicy>>,
     <<OneArgs, IntCopies(1), DefaultPolicy>>,
     <<DocArgs, IntCopies(2), IntPolicy(1)>>,
     <<RaggedArgs, IntCopies(1), DefaultPolicy>>,
     <<NoArgs, IntCopies(1), IntPolicy(1)>>,
     <<DocArgs, IntCopies(0), DefaultPolicy>>,
     <<OneArgs, [isint |-> FALSE, v |-> 0], IntPolicy(1)>>,
     <<RaggedArgs, IntCopies(0), IntPolicy(1)>>}

\* the statements of the with blocks: a gate and a measurement on q[0]
AgainCommands ==
    {Cmd("Rgate", <<0>>, <<SymArg(ParamName(0))>>),
     Cmd("MeasureHomodyne", <<0>>, <<SymArg(ParamName(0))>>)}

InitAgain == Init /\ N = <<2>>

NextAgain ==
    \/ \E call \in AgainCalls : context(call[1], call[2], call[3])
    \/ Enter
    \/ \E cmd \in AgainCommands :
           /\ Len(circuit) < MaxCommands
           /\ AppendFrom({Append(circuit, cmd)}, cmd)
    \/ Exit
    \/ ExitRaised
    \/ Roll
    \/ UnrollCached
    \/ (computed < MaxUnrolls /\ UnrollBegin)
    \/ UnrollApplyOp
    \/ UnrollApplyOpFails
    \/ UnrollShift
    \/ UnrollEnd

SpecAgain == InitAgain /\ [][NextAgain]_vars

\* C31: from context() to the end of the with block, the stored rolled
\* circuit, the time-bin count, the total-time-bin count and the
\* spatial-mode count change in one step only, the __exit__ that validates
\* successfully, which sets them together; every other step, the exit of a
\* block that raised and the exit whose validation fails included, leaves
\* them as they were before the block.
Constructing == pc \in {"bound", "block"}
ExitSucceeds == pc = "block" /\ pc' = "idle" /\ err' = "none"

C31_ExitAllOrNothing ==
    [][Constructing =>
          IF ExitSucceeds
          THEN /\ rolled_circuit' = Some(circuit)
               /\ timebins' = Len(At(tdm_params, 0))
               /\ total_timebins' = timebins' * copies
               /\ spatial_modes' = Len(N)
          ELSE UNCHANGED <<rolled_circuit, counts>>]_vars

\* C32: once unroll() has cached a circuit, the cache is never dropped and
\* never rebuilt: no call of context(), whatever it binds, of roll() or of
\* unroll() changes it, and unroll() activates that same circuit again.
Cached == unrolled_circuit # None
Rebinds == pc = "idle" /\ pc' = "bound"

C32_CacheNeverInvalidated ==
    [][Cached =>
          /\ unrolled_circuit' # None
          /\ computed' = computed
          /\ pc # "block" => unrolled_circuit' = unrolled_circuit
          /\ pc = "idle" /\ alias' = "unrolled" => circuit' = unrolled_circuit[1]]_vars

\* the circuit cached under (OneArgs, copies 1, default shift) is active
\* after context() has bound DocArgs, copies 2 and the integer shift 1
C32_Witness ==
    /\ pc = "idle"
    /\ alias = "unrolled"
    /\ circuit = unrolled_circuit[1]
    /\ Len(circuit) = 3
    /\ [k \in 1..3 |-> circuit[k].p[1]] = OneArgs[1]
    /\ tdm_params = DocArgs
    /\ copies = 2
    /\ shift = IntPolicy(1)

\* C33: a context() call whose sequences differ in length, that has no
\* sequences, or whose repeat count is not a positive integer is rejected
\* and leaves copies, tdm_params, shift and loop_vars as they were; when the
\* lengths and the repeat count are both invalid the error is the
\* length-mismatch error.
LengthsInvalid(args) == Cardinality({Len(args[k]) : k \in DOMAIN args}) # 1
CopiesInvalid(c) == ~c.isint \/ c.v < 1

C33_RejectedContextKeepsBinding ==
    [][\A call \in AgainCalls :
          (/\ LengthsInvalid(call[1]) \/ CopiesInvalid(call[2])
           /\ context(call[1], call[2], call[3])) =>
              /\ UNCHANGED binding
              /\ pc' = "idle"
              /\ err' = IF LengthsInvalid(call[1]) THEN UnequalLength ELSE BadCopies]_vars

\* a program bound to DocArgs, copies 2 and shift 1 and constructed, after a
\* context() call was rejected for its lengths
C33_Witness ==
    /\ pc = "idle"
    /\ err = UnequalLength
    /\ rolled_circuit # None
    /\ tdm_params = DocArgs
    /\ copies = 2
    /\ shift = IntPolicy(1)

\* the same after a call rejected for its repeat count
C33_WitnessCopies ==
    /\ pc = "idle"
    /\ err = BadCopies
    /\ rolled_circuit # None
    /\ tdm_params = DocArgs
    /\ copies = 2
    /\ shift = IntPolicy(1)

C35_OneMeasuredModePerBand ==
    [][/\ UnrollDone' => Len(measured_modes') = Len(N)
       /\ UnrollDone => measured_modes' = measured_modes]_vars

\* C36: reshape_samples consumes the dict it is handed.  After a successful
\* call every outcome list of it is empty.  After a failed call the
\* outcomes taken at the positions walked before the failing one are gone
\* from the front of their lists, every other outcome is still there, and
\* the failing position asks for a register that has no outcome left.
RawLeft == all_samples[1]
Consumed == CountValues(RawIn) - CountValues(RawLeft)

C36_ReshapeConsumesInput ==
    Reshaped =>
        LET sched == WalkedSchedule
            walked == Consumed
        IN  /\ DOMAIN RawLeft = DOMAIN RawIn
            /\ \A r \in DOMAIN RawIn :
                   RawLeft[r] = SubSeq(RawIn[r], Requests(sched, r, walked) + 1,
                                       Len(RawIn[r]))
            /\ err = "none" => \A r \in DOMAIN RawLeft : RawLeft[r] = <<>>
            /\ err # "none" =>
                   /\ walked < Len(sched)
                   /\ \/ sched[walked + 1] \notin DOMAIN RawIn
                      \/ RawLeft[sched[walked + 1]] = <<>>

\* a successful call that emptied two lists of two outcomes each
C36_Witness ==
    /\ Reshaped
    /\ err = "none"
    /\ N = <<2>>
    /\ RawIn = Recorded(<<0, 1, 0, 1>>)
    /\ RawLeft = [r \in {0, 1} |-> <<>>]

\* a failed call that had taken two outcomes and left two behind
C36_WitnessFailed ==
    /\ Reshaped
    /\ err # "none"
    /\ Consumed = 2
    /\ CountValues(RawLeft) = 2

\* C37: under the default shift policy the register mapping has period
\* lcm(N): q is the declared register exactly at the time steps that are
\* multiples of lcm(N), and q at step i is q at step i - lcm(N).  The
\* commands of the unrolled circuit therefore repeat with period
\* P = lcm(timebins, lcm(N)): the command at position k of step t + P is the
\* command at position k of step t.
RECURSIVE Gcd(_, _)
Gcd(a, b) == IF b = 0 THEN a ELSE Gcd(b, a % b)
Lcm(a, b) == (a * b) \div Gcd(a, b)

RECURSIVE LcmOf(_)
LcmOf(s) == IF s = <<>> THEN 1 ELSE Lcm(Head(s), LcmOf(Tail(s)))

Period == Lcm(timebins, LcmOf(N))

C37_DefaultShiftIsPeriodic ==
    shift = DefaultPolicy =>
        /\ Unrolling =>
               /\ q = Register(N) <=> i % LcmOf(N) = 0
               /\ i >= LcmOf(N) => q = ShiftsApplied(i - LcmOf(N))
        /\ UnrollDone =>
               \A k \in DOMAIN Unrolled :
                   k + Period * Len(Rolled) \in DOMAIN Unrolled =>
                       Unrolled[k + Period * Len(Rolled)] = Unrolled[k]

\* N = [2, 3] with three time bins and three copies: the period is 6 and
\* steps 6 .. 8 repeat steps 0 .. 2
C37_Witness ==
    /\ shift = DefaultPolicy
    /\ UnrollDone
    /\ N = <<2, 3>>
    /\ timebins = 3
    /\ total_timebins = 9
    /\ Period = 6
    /\ Unrolled[1 + 6 * Len(Rolled)] = Unrolled[1]
    /\ Unrolled[1 + 3 * Len(Rolled)] # Unrolled[1]

=============================================================================
